---- MODULE Spec2Model ----
(***************************************************************************)
(* Model of the ILLUMINUS front-end processing-session protocol:           *)
(*   core/WebSocketManager.js       connection lifecycle, send, reconnect  *)
(*   modules/ProcessingPipeline.js  startProcessing / cancel / reset and   *)
(*                                  the inbound message handlers           *)
(*   modules/FileManager.js         fileToBase64 / base64ToBlob            *)
(*   the two WebSocket test pages   WebSocketTestManager, WebSocketTestClient *)
(*   main.js                        IlluminusApp: its own socket, reconnect *)
(*                                  and form submission                     *)
(* The browser's WebSocket objects, its timers, the FileReader and the     *)
(* server are the environment: every event they can deliver is an action.  *)
(* One action is one task of the JavaScript event loop together with the   *)
(* promise continuations (microtasks) it triggers.                         *)
(*                                                                         *)
(* WebSocket objects carry no identity in the code, so the model keeps the *)
(* one this.ws references apart from the bag of those that were replaced   *)
(* or dropped but are still alive (their handlers stay bound to the        *)
(* manager); suspended startProcessing invocations are counted per place   *)
(* of suspension.                                                          *)
(***************************************************************************)
EXTENDS Integers, FiniteSets, Sequences, Bags, TLC

\* ---- bounds of the model -------------------------------------------------
MaxSockets == 2   \* WebSocket objects alive at the same time
MaxCalls   == 1   \* startProcessing invocations suspended at the same time
MaxPending == 2   \* process requests the server holds per socket
MaxTimers  == 1   \* reconnect timers pending at the same time
MaxUrls    == 2   \* object URLs of result videos alive at the same time
MaxLen     == 3   \* bytes in a file handed to fileToBase64

\* ---- program constants ---------------------------------------------------
maxReconnectAttempts == 5
reconnectDelay == 1000

VARIABLES
    \* WebSocketManager fields
    ws,                 \* this.ws: the WebSocket object referenced, or Null
    isConnected,        \* this.isConnected
    reconnectAttempts,  \* this.reconnectAttempts
    \* browser environment
    stale,              \* bag of live WebSocket objects this.ws no longer references
    timers,             \* reconnect timers armed by setTimeout, not yet fired
    \* ProcessingPipeline fields
    isProcessing,       \* this.isProcessing
    calls,              \* startProcessing invocations suspended in fileToBase64
    \* observation of the run (history)
    stops,              \* stopProcessing invocations since the last accepted start:
                        \* 0, 1, or 2 for twice or more
    schedSinceOpen,     \* scheduleReconnect invocations since the last open event
    lastDelay,          \* delay of the last scheduleReconnect since the last open event
    disconnected,       \* disconnect() was the last explicit connect/disconnect call
    lastCall,           \* the last call of a public method and what it returned
    lastConnectionChange, \* <<v>>: onConnectionChange was last called with v; <<>>: never
    \* inbound path: WebSocketManager.messageHandlers and the result resources of
    \* the ProcessingPipeline
    messageHandlers,    \* this.messageHandlers: message type -> handler
    downloadUrl,        \* this.downloadUrl is set (holds an object URL)
    objectUrls,         \* object URLs created by the pipeline and not revoked
    \* the WebSocket test pages
    tc,                 \* the fields of the test page's client object
    \* the main page
    app,                \* the fields of the IlluminusApp object
    \* FileManager conversions
    codec               \* a byte sequence on its way through the wire text form

mgrVars     == <<ws, isConnected, reconnectAttempts, stale, timers>>
pipeVars    == <<isProcessing, calls>>
histVars    == <<stops, schedSinceOpen, lastDelay, disconnected, lastCall>>
resultVars  == <<downloadUrl, objectUrls>>
inboundVars == <<messageHandlers, resultVars>>
pageVars    == <<tc, codec, app>>
\* what the connection lifecycle and the request path leave alone
restVars    == <<lastConnectionChange, inboundVars, pageVars>>
vars        == <<mgrVars, pipeVars, histVars, lastConnectionChange, inboundVars, pageVars>>

\* ---- errors thrown to callers ----------------------------------------------
NoError        == "none"
NotConnected   == "WebSocket not connected"
InvalidState   == "InvalidStateError"
AlreadyRunning == "Processing already in progress"
MissingFiles   == "Missing required files"
ReadFailed     == "FileReader error"
ConnectFailed  == "WebSocket connection failed"

\* ---- WebSocket objects -------------------------------------------------------
\* rs: readyState.  ABORTING is readyState CLOSING of a socket that close() was
\*     called on while it was CONNECTING (it never opened); CLOSING is an opened
\*     socket in its closing handshake.
\* pending: process requests the server received on it and has not answered
\*     with a terminal message; cancelReq: the server received a cancel for them.
\* waiters: startProcessing invocations awaiting the promise connect() returned
\*     for this socket.
Socket(rs, pending, cancelReq, waiters) ==
    [rs |-> rs, pending |-> pending, cancelReq |-> cancelReq, waiters |-> waiters]

Null == Socket("NULL", 0, FALSE, 0)

LiveStates == {"CONNECTING", "OPEN", "CLOSING", "ABORTING"}

One(r) == SetToBag({r})

\* the live sockets: the one this.ws references (cur) or a stale one
Live == {[cur |-> TRUE, rec |-> ws] : x \in IF ws.rs \in LiveStates THEN {1} ELSE {}}
        \cup {[cur |-> FALSE, rec |-> r] : r \in BagToSet(stale)}

\* socket s.rec becomes r2 (a closed socket that nothing references is garbage)
wsAfter(s, r2)    == IF s.cur THEN r2 ELSE ws
staleAfter(s, r2) == IF s.cur THEN stale
                     ELSE IF r2.rs \in LiveStates THEN (stale (-) One(s.rec)) (+) One(r2)
                     ELSE stale (-) One(s.rec)

\* sum of F over the stale sockets
StaleSum(F(_)) ==
    LET W[S \in SUBSET BagToSet(stale)] ==
            IF S = {} THEN 0
            ELSE LET r == CHOOSE x \in S : TRUE
                 IN F(r) * CopiesIn(r, stale) + W[S \ {r}]
    IN W[BagToSet(stale)]

\* number of startProcessing invocations that are suspended somewhere
Suspended ==
    calls.audio + calls.video + ws.waiters + StaleSum(LAMBDA r : r.waiters)

\* number of startProcessing invocations awaiting a promise of connect()
Awaiting == ws.waiters + StaleSum(LAMBDA r : r.waiters)

\* number of process requests the server holds, over all sockets
Held == ws.pending + StaleSum(LAMBDA r : r.pending)

\* number of WebSocket objects that are connecting or open
Transports ==
    (IF ws.rs \in {"CONNECTING", "OPEN"} THEN 1 ELSE 0)
    + StaleSum(LAMBDA r : IF r.rs \in {"CONNECTING", "OPEN"} THEN 1 ELSE 0)

\* what a step reports: the operation, the error thrown to its caller, whether a
\* message reached the server, and what happened to a startProcessing promise
Call(op, thrown, handed, settle) ==
    [op |-> op, thrown |-> thrown, handed |-> handed, settle |-> settle]

\* environment events that settle nothing report nothing
Quiet == Call("event", NoError, FALSE, "none")

Bump(n, cap) == IF n < cap THEN n + 1 ELSE cap

\* ---- message routing ----------------------------------------------------------
\* the message types of the protocol, server to client
RouteTypes == {"progress", "result", "error", "cancelled", "connection"}

\* messageHandlers.get(type) of a type nothing was registered for
NoHandler == "undefined"

\* handlers of other components of the page
Listeners == {"listenerA", "listenerB"}

\* the types the other components register for: one the pipeline handles and
\* one it does not
ListenedTypes == {"result", "connection"}

\* ProcessingPipeline.setupWebSocketHandlers(), run by its constructor: the
\* handler of each type is the closure calling the pipeline method named
setupWebSocketHandlers ==
    [type \in RouteTypes |->
        CASE type = "progress"  -> "handleProgressMessage"
          [] type = "result"    -> "handleResultMessage"
          [] type = "error"     -> "handleErrorMessage"
          [] type = "cancelled" -> "handleCancelledMessage"
          [] OTHER              -> NoHandler]

\* the test page's client object when no test page is open
NoPage == [impl |-> "none"]

\* the IlluminusApp object when the main page is not open
NoApp == [loaded |-> FALSE]

\* a conversion of FileManager: the text of a message field (undefined when
\* split found no second part) and the bytes of a blob (or atob threw)
NoText == [defined |-> FALSE, text |-> <<>>]
NoBlob == [ok |-> FALSE, bytes |-> <<>>]

\* stage: "idle" (nothing to convert), "file" (a file is selected), "wire" (the
\* text of the message field is made), "blob" (decoded) or "failed" (atob threw)
NoCodec == [stage |-> "idle", bytes |-> <<>>, engine |-> "gecko",
            wire |-> NoText, blob |-> NoBlob]

SocketRecords ==
    [rs : LiveStates \cup {"NULL", "CLOSED"}, pending : 0..MaxPending,
     cancelReq : BOOLEAN, waiters : 0..MaxCalls]

TypeOK ==
    /\ ws \in SocketRecords
    /\ isConnected \in BOOLEAN
    /\ reconnectAttempts \in 0..maxReconnectAttempts
    /\ IsABag(stale)
    /\ BagToSet(stale) \subseteq {r \in SocketRecords : r.rs \in LiveStates}
    /\ BagCardinality(stale) + Cardinality({s \in Live : s.cur}) <= MaxSockets
    /\ timers \in 0..MaxTimers
    /\ isProcessing \in BOOLEAN
    /\ calls \in [audio : 0..MaxCalls, video : 0..MaxCalls]
    /\ Suspended <= MaxCalls
    /\ stops \in 0..2
    /\ schedSinceOpen \in 0..(maxReconnectAttempts + 1)
    /\ lastDelay \in Nat
    /\ disconnected \in BOOLEAN
    /\ lastConnectionChange \in {<<>>, <<TRUE>>, <<FALSE>>}
    /\ messageHandlers \in [RouteTypes -> {NoHandler} \cup Listeners
                                          \cup {setupWebSocketHandlers[t] : t \in RouteTypes}]
    /\ downloadUrl \in BOOLEAN
    /\ objectUrls \in [result : 0..MaxUrls, original : 0..MaxUrls]

\* the state after `new WebSocketManager()` and `new ProcessingPipeline(...)`
Constructed ==
    /\ ws = Null
    /\ isConnected = FALSE
    /\ reconnectAttempts = 0
    /\ stale = EmptyBag
    /\ timers = 0
    /\ isProcessing = FALSE
    /\ calls = [audio |-> 0, video |-> 0]
    /\ stops = 0
    /\ schedSinceOpen = 0
    /\ lastDelay = 0
    /\ disconnected = FALSE
    /\ lastCall = Call("init", NoError, FALSE, "none")
    /\ lastConnectionChange = <<>>
    /\ messageHandlers = setupWebSocketHandlers
    /\ downloadUrl = FALSE
    /\ objectUrls = [result |-> 0, original |-> 0]

Init ==
    /\ Constructed
    /\ tc = NoPage
    /\ codec = NoCodec
    /\ app = NoApp


\* ---- WebSocketManager ---------------------------------------------------------

\* isReady(): this.isConnected && this.ws && this.ws.readyState === WebSocket.OPEN
isReady == isConnected /\ ws.rs # "NULL" /\ ws.rs = "OPEN"

\* connect() without its first line
connectIsNoOp_Never == FALSE

\* connect(), first line: `if (this.isConnected) return Promise.resolve()`
connectIsNoOp == isConnected

\* connect(): the effect on this.ws and on the WebSocket objects; w is the number
\* of startProcessing invocations that await the promise it returns.  When it is
\* not a no-op, `this.ws = new WebSocket(wsUrl)` replaces the reference: the
\* socket referenced before is neither closed nor are its handlers detached.
connect(w) ==
    IF connectIsNoOp
    THEN UNCHANGED <<ws, stale>>
    ELSE /\ BagCardinality(stale) + Cardinality({s \in Live : s.cur}) < MaxSockets
         /\ ws' = Socket("CONNECTING", 0, FALSE, w)
         /\ stale' = IF ws.rs \in LiveStates THEN stale (+) One(ws) ELSE stale

\* send(message), the guard: `if (!this.isConnected || !this.ws) throw`
sendThrowsNotConnected == ~isConnected \/ ws.rs = "NULL"

\* send(message): what the call does.  After the guard the message goes to
\* this.ws.send, which throws InvalidStateError on a CONNECTING socket, transmits
\* on an OPEN one and discards the data without any error on a closing or closed
\* one.
sendOutcome ==
    IF sendThrowsNotConnected THEN "notConnected"
    ELSE CASE ws.rs = "CONNECTING" -> "invalidState"
           [] ws.rs = "OPEN"       -> "transmitted"
           [] OTHER                -> "discarded"

sendThrown ==
    CASE sendOutcome = "notConnected" -> NotConnected
      [] sendOutcome = "invalidState" -> InvalidState
      [] OTHER                        -> NoError

\* the exponent taken from the incremented counter without the `- 1`
reconnectDelayFor_OffByOne(n) == reconnectDelay * 2^n

\* scheduleReconnect(): the delay computed for the attempt numbered n
reconnectDelayFor(n) == reconnectDelay * 2^(n - 1)

\* a condition that does not look at event.wasClean
shouldReconnect_AnyClose(wasClean) == reconnectAttempts < maxReconnectAttempts

\* the comparison with the cap made inclusive
shouldReconnect_Inclusive(wasClean) ==
    ~wasClean /\ reconnectAttempts <= maxReconnectAttempts

\* onclose: `if (!event.wasClean && this.reconnectAttempts < this.maxReconnectAttempts)`
shouldReconnect(wasClean) == ~wasClean /\ reconnectAttempts < maxReconnectAttempts

\* scheduleReconnect(): count the attempt and arm the timer
scheduleReconnect ==
    /\ timers < MaxTimers
    /\ reconnectAttempts' = reconnectAttempts + 1
    /\ timers' = timers + 1
    /\ lastDelay' = reconnectDelayFor(reconnectAttempts + 1)
    /\ schedSinceOpen' = Bump(schedSinceOpen, maxReconnectAttempts + 1)

\* onopen: `this.reconnectAttempts = 0`
attemptsAfterOpen == 0

\* an onopen that sends the request in progress again
resubmitted_Replay == IF isProcessing THEN 1 ELSE 0

\* onopen: the process messages the handler itself sends on the opened socket
\* (it calls onConnectionChange and resolve, and sends nothing)
resubmitted == 0

\* WebSocket.close(): a CONNECTING or OPEN socket starts closing, the close
\* event follows as a later task; on a closing or closed socket it does nothing
closeSocket(r) ==
    CASE r.rs = "CONNECTING" -> [r EXCEPT !.rs = "ABORTING"]
      [] r.rs = "OPEN"       -> [r EXCEPT !.rs = "CLOSING"]
      [] OTHER               -> r

\* connect() called by the application
callerConnect ==
    /\ connect(0)
    /\ disconnected' = FALSE
    /\ lastCall' = Call("connect", NoError, FALSE, "none")
    /\ UNCHANGED <<restVars, isConnected, reconnectAttempts, timers, pipeVars,
                   stops, schedSinceOpen, lastDelay>>

\* disconnect()
disconnect ==
    /\ stale' = IF closeSocket(ws).rs \in LiveStates
                THEN stale (+) One(closeSocket(ws))
                ELSE stale
    /\ ws' = Null
    /\ isConnected' = FALSE
    /\ disconnected' = TRUE
    /\ lastCall' = Call("disconnect", NoError, FALSE, "none")
    /\ UNCHANGED <<restVars, reconnectAttempts, timers, pipeVars,
                   stops, schedSinceOpen, lastDelay>>

\* send(message) called by the application with a message the server answers
\* without touching a request (ping)
send ==
    /\ lastCall' = Call("send", sendThrown, sendOutcome = "transmitted", "none")
    /\ UNCHANGED <<restVars, mgrVars, pipeVars, stops, schedSinceOpen, lastDelay, disconnected>>

\* a registration that keeps the handler registered first
registered_KeepFirst(type, handler) ==
    IF messageHandlers[type] = NoHandler
    THEN [messageHandlers EXCEPT ![type] = handler]
    ELSE messageHandlers

\* onMessage(type, handler): this.messageHandlers.set(type, handler)
registered(type, handler) == [messageHandlers EXCEPT ![type] = handler]

\* onMessage(type, handler) called by another component of the page
onMessage(type, handler) ==
    /\ messageHandlers' = registered(type, handler)
    /\ lastCall' = [op |-> "onMessage", thrown |-> NoError, handed |-> FALSE,
                    settle |-> "none", type |-> type, handler |-> handler]
    /\ UNCHANGED <<mgrVars, pipeVars, stops, schedSinceOpen, lastDelay, disconnected,
                   lastConnectionChange, resultVars, pageVars>>

\* the callback scheduleReconnect handed to setTimeout:
\* this.connect().catch(log)
reconnectTimer ==
    /\ timers > 0
    /\ timers' = timers - 1
    /\ connect(0)
    /\ lastCall' = Quiet
    /\ UNCHANGED <<restVars, isConnected, reconnectAttempts, pipeVars,
                   stops, schedSinceOpen, lastDelay, disconnected>>

\* ws.onopen of socket s; onConnectionChange(true); resolve() resumes the startProcessing invocations that
\* await this socket's connect(): they enter processWithWebSocket and suspend in
\* the first fileToBase64
onopen(s) ==
    /\ s.rec.rs = "CONNECTING"
    /\ ws' = wsAfter(s, [s.rec EXCEPT !.rs = "OPEN", !.waiters = 0,
                                        !.pending = @ + resubmitted])
    /\ stale' = staleAfter(s, [s.rec EXCEPT !.rs = "OPEN", !.waiters = 0,
                                              !.pending = @ + resubmitted])
    /\ isConnected' = TRUE
    /\ reconnectAttempts' = attemptsAfterOpen
    /\ schedSinceOpen' = 0
    /\ lastDelay' = 0
    /\ calls' = [calls EXCEPT !.audio = @ + s.rec.waiters]
    /\ lastConnectionChange' = <<TRUE>>
    /\ lastCall' = Quiet
    /\ UNCHANGED <<inboundVars, pageVars, timers, isProcessing, stops, disconnected>>

\* the server (or the network stack) starts the closing handshake of an open
\* socket: readyState becomes CLOSING, no handler of the manager runs
closing(s) ==
    /\ s.rec.rs = "OPEN"
    /\ ws' = wsAfter(s, [s.rec EXCEPT !.rs = "CLOSING"])
    /\ stale' = staleAfter(s, [s.rec EXCEPT !.rs = "CLOSING"])
    /\ lastCall' = Quiet
    /\ UNCHANGED <<restVars, isConnected, reconnectAttempts, timers, pipeVars,
                   stops, schedSinceOpen, lastDelay, disconnected>>

\* a catch that rethrows without touching isProcessing
isProcessingAfterCatch_Kept == isProcessing

\* ProcessingPipeline.startProcessing(), its catch, which a rejected connect()
\* promise runs as well: `this.isProcessing = false; throw error`
isProcessingAfterCatch == FALSE

\* The task that closes socket s: when the connection failed (not clean) the
\* browser fires error and then close, otherwise close alone.
\*   ws.onerror: isConnected = false; onConnectionChange(false); reject(...) -
\*     effective only when the
\*     promise was not resolved by onopen; the rejected startProcessing
\*     invocations run their catch (isProcessing = false; rethrow)
\*   ws.onclose: isConnected = false; onConnectionChange(false);
\*     scheduleReconnect() when not clean and attempts remain
\* A socket that never opened (connection refused, or close() called while it
\* was CONNECTING) always fails; an OPEN socket closing without handshake is
\* not clean; after a closing handshake the close is clean unless it broke.
onclose(s, wasClean) ==
    /\ s.rec.rs \in LiveStates
    /\ wasClean => s.rec.rs = "CLOSING"
    /\ ws' = wsAfter(s, Socket("CLOSED", 0, FALSE, 0))
    /\ stale' = staleAfter(s, Socket("CLOSED", 0, FALSE, 0))
    /\ isConnected' = FALSE
    /\ lastConnectionChange' = <<FALSE>>
    /\ isProcessing' = IF s.rec.waiters > 0 THEN isProcessingAfterCatch
                       ELSE isProcessing
    /\ IF shouldReconnect(wasClean)
       THEN scheduleReconnect
       ELSE UNCHANGED <<reconnectAttempts, timers, lastDelay, schedSinceOpen>>
    /\ lastCall' = IF s.rec.waiters > 0
                   THEN Call("startProcessing", ConnectFailed, FALSE, "rejected")
                   ELSE Quiet
    /\ UNCHANGED <<inboundVars, pageVars, calls, stops, disconnected>>


\* ---- FileManager: fileToBase64 / base64ToBlob --------------------------------------
\* Texts are sequences of character codes, files and blobs sequences of bytes.

\* the base64 alphabet: the character of a 6-bit value, and back (-1: none)
b64Char(i) ==
    CASE i < 26 -> 65 + i
      [] i < 52 -> 97 + (i - 26)
      [] i < 62 -> 48 + (i - 52)
      [] i = 62 -> 43
      [] OTHER  -> 47

b64Index(c) ==
    CASE c >= 65 /\ c <= 90  -> c - 65
      [] c >= 97 /\ c <= 122 -> c - 97 + 26
      [] c >= 48 /\ c <= 57  -> c - 48 + 52
      [] c = 43              -> 62
      [] c = 47              -> 63
      [] OTHER               -> -1

Pad   == 61   \* '='
Comma == 44   \* ','

\* FileReader.readAsDataURL, the payload: base64 of the bytes with padding
RECURSIVE encodeBase64(_)
encodeBase64(bytes) ==
    CASE Len(bytes) = 0 -> <<>>
      [] Len(bytes) = 1 ->
            <<b64Char(bytes[1] \div 4), b64Char((bytes[1] % 4) * 16), Pad, Pad>>
      [] Len(bytes) = 2 ->
            <<b64Char(bytes[1] \div 4),
              b64Char((bytes[1] % 4) * 16 + bytes[2] \div 16),
              b64Char((bytes[2] % 16) * 4), Pad>>
      [] OTHER ->
            <<b64Char(bytes[1] \div 4),
              b64Char((bytes[1] % 4) * 16 + bytes[2] \div 16),
              b64Char((bytes[2] % 16) * 4 + bytes[3] \div 64),
              b64Char(bytes[3] % 64)>>
            \o encodeBase64(SubSeq(bytes, 4, Len(bytes)))

\* "data:", "application/octet-stream" and ";base64" as character codes
DataScheme == <<100, 97, 116, 97, 58>>
OctetStream == <<97, 112, 112, 108, 105, 99, 97, 116, 105, 111, 110, 47,
                 111, 99, 116, 101, 116, 45, 115, 116, 114, 101, 97, 109>>
Base64Mark == <<59, 98, 97, 115, 101, 54, 52>>

\* The browsers differ on a file of no bytes: Blink's readAsDataURL yields the
\* bare "data:", Gecko's the full "data:<type>;base64," with an empty payload.
Engines == {"blink", "gecko"}

\* reader.result of readAsDataURL(file), which fileToBase64 resolves with
readAsDataURL(bytes, engine) ==
    IF Len(bytes) = 0 /\ engine = "blink"
    THEN DataScheme
    ELSE DataScheme \o OctetStream \o Base64Mark \o <<Comma>> \o encodeBase64(bytes)

\* String.prototype.split(',')[1]: the text between the first comma and the
\* second one (or the end); undefined when the text holds no comma
RECURSIVE upToComma(_)
upToComma(text) ==
    IF text = <<>> \/ Head(text) = Comma THEN <<>>
    ELSE <<Head(text)>> \o upToComma(Tail(text))

splitSecond(text) ==
    IF \E i \in 1..Len(text) : text[i] = Comma
    THEN LET first == CHOOSE i \in 1..Len(text) :
                         text[i] = Comma /\ \A j \in 1..(i - 1) : text[j] # Comma
         IN [defined |-> TRUE, text |-> upToComma(SubSeq(text, first + 1, Len(text)))]
    ELSE [defined |-> FALSE, text |-> <<>>]

\* the text a message field carries: audioBase64.split(',')[1]
wireText(bytes, engine) == splitSecond(readAsDataURL(bytes, engine))

\* String(undefined), the text atob converts an undefined argument to
UndefinedText == <<117, 110, 100, 101, 102, 105, 110, 101, 100>>

\* atob, first step: a text whose length is a multiple of four loses one or two
\* trailing '='
stripPadding(text) ==
    IF Len(text) % 4 = 0 /\ Len(text) >= 1 /\ text[Len(text)] = Pad
    THEN IF Len(text) >= 2 /\ text[Len(text) - 1] = Pad
         THEN SubSeq(text, 1, Len(text) - 2)
         ELSE SubSeq(text, 1, Len(text) - 1)
    ELSE text

\* atob, the decoding of the characters that remain: four give three bytes,
\* three give two, two give one
RECURSIVE decodeBase64(_)
decodeBase64(data) ==
    CASE Len(data) = 0 -> <<>>
      [] Len(data) = 2 ->
            <<b64Index(data[1]) * 4 + b64Index(data[2]) \div 16>>
      [] Len(data) = 3 ->
            <<b64Index(data[1]) * 4 + b64Index(data[2]) \div 16,
              (b64Index(data[2]) % 16) * 16 + b64Index(data[3]) \div 4>>
      [] OTHER ->
            <<b64Index(data[1]) * 4 + b64Index(data[2]) \div 16,
              (b64Index(data[2]) % 16) * 16 + b64Index(data[3]) \div 4,
              (b64Index(data[3]) % 4) * 64 + b64Index(data[4])>>
            \o decodeBase64(SubSeq(data, 5, Len(data)))

\* atob(arg): throws InvalidCharacterError when the data length leaves a
\* remainder of one or a character is outside the alphabet
atob(arg) ==
    LET data == stripPadding(IF arg.defined THEN arg.text ELSE UndefinedText)
    IN IF Len(data) % 4 = 1 \/ \E i \in 1..Len(data) : b64Index(data[i]) = -1
       THEN [ok |-> FALSE, bytes |-> <<>>]
       ELSE [ok |-> TRUE, bytes |-> decodeBase64(data)]

\* base64ToBlob(base64, mimeType): the bytes of the Blob (charCodeAt of every
\* character atob returned), or the error atob threw
base64ToBlob(arg) == atob(arg)

\* the files the conversions are followed on
ByteValues == {0, 1, 127, 128, 255}

ByteSeqs == UNION {[1..n -> ByteValues] : n \in 0..MaxLen}

Files == [stage : {"file"}, bytes : ByteSeqs, engine : Engines,
          wire : {NoText}, blob : {NoBlob}]

\* the fields of WebSocketManager and ProcessingPipeline and their history,
\* without the report of the last call
sessionVars == <<mgrVars, pipeVars, stops, schedSinceOpen, lastDelay, disconnected,
                 lastConnectionChange, inboundVars>>

\* fileToBase64(file) resolves; processWithWebSocket strips the data-URL prefix
\* for the message field
fileToBase64 ==
    /\ codec.stage = "file"
    /\ codec' = [codec EXCEPT !.stage = "wire",
                              !.wire = wireText(codec.bytes, codec.engine)]
    /\ UNCHANGED <<sessionVars, lastCall, tc, app>>

\* the text comes back as the video_base64 of a result: base64ToBlob(text)
decodeWire ==
    /\ codec.stage = "wire"
    /\ codec' = [codec EXCEPT
                   !.stage = IF base64ToBlob(codec.wire).ok THEN "blob" ELSE "failed",
                   !.blob = base64ToBlob(codec.wire)]
    /\ UNCHANGED <<sessionVars, lastCall, tc, app>>

\* ---- ProcessingPipeline -------------------------------------------------------

\* startProcessing() without its first line
startRejected_Unchecked == FALSE

\* startProcessing(), first line: `if (this.isProcessing) throw`
startRejected == isProcessing

\* fileManager.getFiles(): which of the two files are selected
FileChoices == [video : BOOLEAN, audio : BOOLEAN]

\* a check that looks at the video file only
filesMissing_VideoOnly(files) == ~files.video

\* startProcessing(): `if (!files.video || !files.audio) throw`
filesMissing(files) == ~files.video \/ ~files.audio

\* stopProcessing(): this.isProcessing = false (and the UI leaves its processing
\* state); counted per request
stopProcessing ==
    /\ isProcessing' = FALSE
    /\ stops' = Bump(stops, 2)

\* startProcessing(): the synchronous part, up to the first suspension.  When
\* the connection is not ready it awaits connect(); a connect() that returns
\* Promise.resolve() lets the invocation go on to processWithWebSocket within
\* the same task, where it suspends in the first fileToBase64.
startProcessing(files) ==
    IF startRejected
    THEN /\ lastCall' = Call("startProcessing", AlreadyRunning, FALSE, "rejected")
         /\ UNCHANGED <<restVars, mgrVars, pipeVars, stops, schedSinceOpen, lastDelay, disconnected>>
    ELSE IF filesMissing(files)
    THEN /\ lastCall' = Call("startProcessing", MissingFiles, FALSE, "rejected")
         /\ UNCHANGED <<restVars, mgrVars, pipeVars, stops, schedSinceOpen, lastDelay, disconnected>>
    ELSE /\ Suspended < MaxCalls
         /\ isProcessing' = TRUE
         /\ IF isReady
            THEN /\ UNCHANGED <<ws, stale, disconnected>>
                 /\ calls' = [calls EXCEPT !.audio = @ + 1]
            ELSE /\ connect(1)
                 /\ disconnected' = FALSE
                 /\ calls' = IF connectIsNoOp THEN [calls EXCEPT !.audio = @ + 1]
                             ELSE calls
         /\ stops' = 0
         /\ lastCall' = Call("startProcessing", NoError, FALSE, "none")
         /\ UNCHANGED <<restVars, isConnected, reconnectAttempts, timers, schedSinceOpen, lastDelay>>

\* processWithWebSocket(): the FileReader delivered the audio file, the
\* invocation goes on to `await fileToBase64(files.video)`
audioLoaded ==
    /\ calls.audio > 0
    /\ calls' = [audio |-> calls.audio - 1, video |-> calls.video + 1]
    /\ lastCall' = Quiet
    /\ UNCHANGED <<restVars, mgrVars, isProcessing, stops, schedSinceOpen, lastDelay, disconnected>>

\* a catch that logs the error instead of rethrowing it
settleAfterSend_Swallowed(thrown) == "resolved"

\* startProcessing(), the end of the try block and its catch: the promise
\* resolves when processWithWebSocket returned, rejects when it threw
settleAfterSend(thrown) == IF thrown # NoError THEN "rejected" ELSE "resolved"

\* processWithWebSocket(): the FileReader delivered the video file; the message
\* is composed and handed to wsManager.send; startProcessing returns, or its
\* catch sets isProcessing = false and rethrows
videoLoaded ==
    /\ calls.video > 0
    /\ sendOutcome = "transmitted" => ws.pending < MaxPending
    /\ ws' = IF sendOutcome = "transmitted" THEN [ws EXCEPT !.pending = @ + 1] ELSE ws
    /\ calls' = [calls EXCEPT !.video = @ - 1]
    /\ isProcessing' = IF settleAfterSend(sendThrown) = "rejected"
                       THEN isProcessingAfterCatch
                       ELSE isProcessing
    /\ lastCall' = Call("process", sendThrown, sendOutcome = "transmitted",
                        settleAfterSend(sendThrown))
    /\ UNCHANGED <<restVars, isConnected, reconnectAttempts, stale, timers,
                   stops, schedSinceOpen, lastDelay, disconnected>>

\* fileToBase64 rejects (reader.onerror): the catch of startProcessing
fileError(phase) ==
    /\ calls[phase] > 0
    /\ calls' = [calls EXCEPT ![phase] = @ - 1]
    /\ isProcessing' = isProcessingAfterCatch
    /\ lastCall' = Call("startProcessing", ReadFailed, FALSE, "rejected")
    /\ UNCHANGED <<restVars, mgrVars, stops, schedSinceOpen, lastDelay, disconnected>>

\* cancelProcessing()
cancelProcessing ==
    IF ~isProcessing
    THEN /\ lastCall' = Call("cancelProcessing", NoError, FALSE, "none")
         /\ UNCHANGED <<restVars, mgrVars, pipeVars, stops, schedSinceOpen, lastDelay, disconnected>>
    ELSE /\ ws' = IF isReady /\ ws.pending > 0 THEN [ws EXCEPT !.cancelReq = TRUE] ELSE ws
         /\ stopProcessing
         /\ lastCall' = Call("cancelProcessing", NoError, isReady, "none")
         /\ UNCHANGED <<restVars, isConnected, reconnectAttempts, stale, timers, calls,
                        schedSinceOpen, lastDelay, disconnected>>

\* reset(): the object URL held in downloadUrl is revoked
reset ==
    /\ isProcessing' = FALSE
    /\ IF downloadUrl
       THEN /\ objectUrls' = [objectUrls EXCEPT !.result = @ - 1]
            /\ downloadUrl' = FALSE
       ELSE UNCHANGED resultVars
    /\ lastCall' = Call("reset", NoError, FALSE, "none")
    /\ UNCHANGED <<mgrVars, calls, stops, schedSinceOpen, lastDelay, disconnected,
                   lastConnectionChange, messageHandlers, pageVars>>

\* ---- messages of the server (docs/websocket_api_guide.md) ---------------------
\* video_base64 is a text (character codes): "AAAA", or "" for no video
\* the percentages of the progress messages: both ends of 0..100 and one between
ProgressValues == {0, 50, 100}

ProgressMessages ==
    {[type |-> "progress", progress |-> p, message |-> "Processing"] :
        p \in ProgressValues}

ResultMessages ==
    {[type |-> "result", video_base64 |-> v, processing_time |-> 1,
      inference_fps |-> 30, frames_processed |-> 30, model_used |-> m] :
        v \in {<<>>, <<65, 65, 65, 65>>}, m \in {"wav2lip", "nota_wav2lip"}}

ErrorMessages ==
    {[type |-> "error", error_type |-> e, message |-> "Processing failed"] :
        e \in {"processing_error", "task_running"}}

CancelledMessages ==
    {[type |-> "cancelled", message |-> "Processing cancelled"]}

ConnectionMessages ==
    {[type |-> "connection", status |-> "connected", message |-> "Connected"]}

Messages == ProgressMessages \cup ResultMessages \cup ErrorMessages
            \cup CancelledMessages \cup ConnectionMessages

MessageTypes == {"progress", "result", "error", "cancelled"}
Terminal     == {"result", "error", "cancelled"}

\* The session specification follows the messages by their type: one message of
\* each type the pipeline handles, the result without a video.
SessionMessages ==
    {m \in Messages :
        /\ m.type \in MessageTypes
        /\ m.type = "progress" => m.progress = 50
        /\ m.type = "result" => (m.video_base64 = <<>> /\ m.model_used = "wav2lip")
        /\ m.type = "error" => m.error_type = "processing_error"}

\* An inbound frame: the JSON text of a message, whole or cut short on the way.
Frames == [value : Messages, whole : BOOLEAN]

Whole(message) == [value |-> message, whole |-> TRUE]

SyntaxError == "SyntaxError"

\* JSON.parse(event.data): the message of a whole text; a text cut short is no
\* JSON and JSON.parse throws SyntaxError
JSONparse(frame) ==
    IF frame.whole THEN [thrown |-> NoError, value |-> frame.value]
    ELSE [thrown |-> SyntaxError, value |-> [type |-> "none"]]

\* ---- the inbound message handlers of the pipeline ------------------------------

\* `message.metrics?.<field> || <otherwise>`
Metric(message, field, otherwise) ==
    IF "metrics" \in DOMAIN message
    THEN IF field \in DOMAIN message.metrics /\ message.metrics[field] # 0
         THEN message.metrics[field]
         ELSE otherwise
    ELSE otherwise

\* handleResultMessage: the object handed to uiManager.showResult
showResult(message) ==
    [kind |-> "showResult",
     video |-> base64ToBlob([defined |-> TRUE, text |-> message.video_base64]),
     total_processing_time |-> Metric(message, "processing_time", 0),
     inference_fps |-> Metric(message, "inference_fps", 0),
     frames_processed |-> Metric(message, "frames_processed", 0),
     model_type |-> Metric(message, "model_type", "Unknown")]

\* handleErrorMessage: what showErrorToast reports of the message
showErrorToast(message) ==
    [kind |-> "errorToast", message |-> message.message]

\* handleProgressMessage: what is handed to uiManager.updateProgress,
\* `message.progress || 50` and `message.message || 'Processing...'`
showProgress(message) ==
    [kind |-> "progress",
     percentage |-> IF message.progress = 0 THEN 50 ELSE message.progress,
     status |-> IF message.message = "" THEN "Processing..." ELSE message.message]

NothingShown == [kind |-> "none"]

\* handleProgressMessage(message): only the progress display changes
handleProgressMessage(message) ==
    /\ UNCHANGED <<isProcessing, stops, resultVars>>

\* handleResultMessage(message): stopProcessing(); when the message carries a
\* video, an object URL is created for it and stored in downloadUrl (the URL
\* stored before is not revoked) and one more for the original file
handleResultMessage(message) ==
    /\ stopProcessing
    /\ IF message.video_base64 # <<>>
       THEN /\ objectUrls.result < MaxUrls
            /\ objectUrls' = [result |-> objectUrls.result + 1,
                              original |-> Bump(objectUrls.original, MaxUrls)]
            /\ downloadUrl' = TRUE
       ELSE UNCHANGED resultVars

\* handleErrorMessage(message)
handleErrorMessage(message) ==
    /\ stopProcessing
    /\ UNCHANGED resultVars

\* handleCancelledMessage(message)
handleCancelledMessage(message) ==
    /\ stopProcessing
    /\ UNCHANGED resultVars

\* what the handler shows of the message
shown(handler, message) ==
    CASE handler = "handleResultMessage" /\ message.video_base64 # <<>>
            -> showResult(message)
      [] handler = "handleErrorMessage" -> showErrorToast(message)
      [] handler = "handleProgressMessage" -> showProgress(message)
      [] OTHER -> NothingShown

\* WebSocketManager.handleMessage(message): the handler registered for
\* message.type is called with the message; without one the message is logged
handleMessage(message) ==
    CASE messageHandlers[message.type] = "handleProgressMessage"
            -> handleProgressMessage(message)
      [] messageHandlers[message.type] = "handleResultMessage"
            -> handleResultMessage(message)
      [] messageHandlers[message.type] = "handleErrorMessage"
            -> handleErrorMessage(message)
      [] messageHandlers[message.type] = "handleCancelledMessage"
            -> handleCancelledMessage(message)
      [] OTHER -> UNCHANGED <<isProcessing, stops, resultVars>>

\* the handler calls handleMessage makes for the message
invoked(message) ==
    IF messageHandlers[message.type] # NoHandler
    THEN <<[handler |-> messageHandlers[message.type], message |-> message]>>
    ELSE <<>>

\* The server answers every process request with progress messages and then
\* exactly one terminal message, `cancelled` only after it received a cancel;
\* its greeting may come at any time.
answers(r, message) ==
    \/ message.type = "connection"
    \/ /\ message.type \in MessageTypes
       /\ r.pending > 0
       /\ message.type = "cancelled" => r.cancelReq

\* what the server holds for a socket after it sent the frame
afterMessage(r, frame) ==
    IF frame.whole /\ frame.value.type \in Terminal
    THEN [r EXCEPT !.pending = @ - 1,
                   !.cancelReq = IF r.pending = 1 THEN FALSE ELSE @]
    ELSE r

\* ws.onmessage of socket s: this.handleMessage(JSON.parse(event.data)).  An
\* exception of JSON.parse leaves the handler; nothing catches it.  The handlers
\* of a socket stay bound to the manager for as long as the socket lives.
onmessage(s, frame) ==
    /\ s.rec.rs = "OPEN"
    /\ answers(s.rec, frame.value)
    /\ ws' = wsAfter(s, afterMessage(s.rec, frame))
    /\ stale' = staleAfter(s, afterMessage(s.rec, frame))
    /\ IF JSONparse(frame).thrown = NoError
       THEN handleMessage(JSONparse(frame).value)
       ELSE UNCHANGED <<isProcessing, stops, resultVars>>
    /\ UNCHANGED <<isConnected, reconnectAttempts, timers, calls,
                   schedSinceOpen, lastDelay, disconnected,
                   lastConnectionChange, messageHandlers, pageVars>>

\* the session's view of an inbound message: its type
serverMessage(s, type) ==
    /\ \E message \in SessionMessages :
          message.type = type /\ onmessage(s, Whole(message))
    /\ lastCall' = Quiet

\* internal-error events the manager dispatches to listeners for a frame: it has
\* no such event
errorEvents(frame) == 0

\* the inbound path's report of a frame
Delivery(frame) ==
    [op |-> "onmessage", thrown |-> JSONparse(frame).thrown, handed |-> FALSE,
     settle |-> "none", frame |-> frame,
     invoked |-> IF JSONparse(frame).thrown = NoError
                 THEN invoked(frame.value) ELSE <<>>,
     errorEvents |-> errorEvents(frame),
     shown |-> IF JSONparse(frame).thrown = NoError
               THEN shown(messageHandlers[frame.value.type], frame.value)
               ELSE NothingShown]

\* an inbound frame, with what it led to
inbound(s, frame) ==
    /\ onmessage(s, frame)
    /\ lastCall' = Delivery(frame)

\* ---- the WebSocket test pages ---------------------------------------------------
\* WebSocketTestManager and WebSocketTestClient: each is its own client, with its
\* own socket, on its own page.  tc holds the client object:
\*   impl          which of the two classes
\*   sock          the WebSocket object the page created last (Null before)
\*   held          this.ws references sock (false: this.ws is null)
\*   isConnected, isProcessing      the fields of that name
\*   audio, video  startProcessing invocations suspended in fileToBase64
\*   timers        auto-disconnect timers armed by handleResult, not yet fired
\* The operator of the page uses Connect only while no socket of the page is alive.
Impls == {"WebSocketTestManager", "WebSocketTestClient"}

Page(impl) ==
    [impl |-> impl, sock |-> Null, held |-> FALSE, isConnected |-> FALSE,
     isProcessing |-> FALSE, audio |-> 0, video |-> 0, timers |-> 0]

TypeError == "TypeError"

\* what ws.send does for the page: `this.ws` null is a TypeError
pageSocketSend ==
    CASE ~tc.held                   -> "typeError"
      [] tc.sock.rs = "CONNECTING"  -> "invalidState"
      [] tc.sock.rs = "OPEN"        -> "transmitted"
      [] OTHER                      -> "discarded"

\* WebSocketTestClient.sendMessage(message): the guard
\* `if (!this.ws || this.ws.readyState !== WebSocket.OPEN) { log; return }`
sendMessage == IF tc.held /\ tc.sock.rs = "OPEN" THEN "transmitted" ELSE "skipped"

pageThrown(outcome) ==
    CASE outcome = "typeError"    -> TypeError
      [] outcome = "invalidState" -> InvalidState
      [] OTHER                    -> NoError

\* cancelProcessing(), first line: WebSocketTestManager returns
\* `if (!this.isProcessing)`, WebSocketTestClient has no such line
cancelGuard(impl) == impl = "WebSocketTestManager" /\ ~tc.isProcessing

\* connect(): this.ws = new WebSocket(wsUrl)
pageConnect ==
    /\ tc.impl \in Impls
    /\ tc.sock.rs \notin LiveStates
    /\ tc' = [tc EXCEPT !.sock = Socket("CONNECTING", 0, FALSE, 0), !.held = TRUE]
    /\ lastCall' = Call("connect", NoError, FALSE, "none")
    /\ UNCHANGED <<sessionVars, codec, app>>

\* ws.onopen
pageOpen ==
    /\ tc.impl \in Impls
    /\ tc.sock.rs = "CONNECTING"
    /\ tc' = [tc EXCEPT !.sock.rs = "OPEN", !.isConnected = TRUE]
    /\ lastCall' = Quiet
    /\ UNCHANGED <<sessionVars, codec, app>>

\* ws.onerror (when the connection failed) and ws.onclose
pageClose ==
    /\ tc.impl \in Impls
    /\ tc.sock.rs \in LiveStates
    /\ tc' = [tc EXCEPT !.sock = Socket("CLOSED", 0, FALSE, 0), !.isConnected = FALSE]
    /\ lastCall' = Quiet
    /\ UNCHANGED <<sessionVars, codec, app>>

\* disconnect(): `if (this.ws) { this.ws.close(); this.ws = null }`, isConnected
\* = false
pageDisconnectEffect ==
    [tc EXCEPT !.sock = IF tc.held THEN closeSocket(tc.sock) ELSE tc.sock,
               !.held = FALSE, !.isConnected = FALSE]

pageDisconnect ==
    /\ tc.impl \in Impls
    /\ tc' = pageDisconnectEffect
    /\ lastCall' = Call("disconnect", NoError, FALSE, "none")
    /\ UNCHANGED <<sessionVars, codec, app>>

\* startProcessing(): the synchronous part
\*   WebSocketTestManager: `if (!isConnected || isProcessing || !files) return`
\*   WebSocketTestClient:  `if (!files) return`
pageStartRefused(hasFiles) ==
    IF tc.impl = "WebSocketTestManager"
    THEN ~tc.isConnected \/ tc.isProcessing \/ ~hasFiles
    ELSE ~hasFiles

pageStart(hasFiles) ==
    /\ tc.impl \in Impls
    /\ IF pageStartRefused(hasFiles)
       THEN UNCHANGED tc
       ELSE /\ tc.audio + tc.video < MaxCalls
            /\ tc' = [tc EXCEPT !.isProcessing = TRUE, !.audio = @ + 1]
    /\ lastCall' = Call("startProcessing", NoError, FALSE, "none")
    /\ UNCHANGED <<sessionVars, codec, app>>

\* the first fileToBase64 resolved
pageAudioLoaded ==
    /\ tc.impl \in Impls
    /\ tc.audio > 0
    /\ tc' = [tc EXCEPT !.audio = @ - 1, !.video = @ + 1]
    /\ lastCall' = Quiet
    /\ UNCHANGED <<sessionVars, codec, app>>

\* the second fileToBase64 resolved: the process message is sent
\*   WebSocketTestManager: this.ws.send(...); an exception runs the catch, which
\*     calls stopProcessing()
\*   WebSocketTestClient: this.sendMessage(...), which throws nothing
pageVideoLoaded ==
    /\ tc.impl \in Impls
    /\ tc.video > 0
    /\ LET outcome == IF tc.impl = "WebSocketTestManager"
                      THEN pageSocketSend ELSE sendMessage
       IN /\ outcome = "transmitted" => tc.sock.pending < MaxPending
          /\ tc' = [tc EXCEPT
                      !.video = @ - 1,
                      !.sock.pending = IF outcome = "transmitted" THEN @ + 1 ELSE @,
                      !.isProcessing = IF pageThrown(outcome) # NoError
                                       THEN FALSE ELSE @]
          /\ lastCall' = Call("process", NoError, outcome = "transmitted", "none")
    /\ UNCHANGED <<sessionVars, codec, app>>

\* cancelProcessing()
\*   WebSocketTestManager: this.ws.send({type: 'cancel'}) after the guard
\*   WebSocketTestClient: this.sendMessage({type: 'cancel'})
pageCancel ==
    /\ tc.impl \in Impls
    /\ IF cancelGuard(tc.impl)
       THEN /\ UNCHANGED tc
            /\ lastCall' = Call("cancelProcessing", NoError, FALSE, "none")
       ELSE LET outcome == IF tc.impl = "WebSocketTestManager"
                           THEN pageSocketSend ELSE sendMessage
            IN /\ tc' = [tc EXCEPT
                           !.sock.cancelReq = IF outcome = "transmitted"
                                                 /\ tc.sock.pending > 0
                                              THEN TRUE ELSE @]
               /\ lastCall' = Call("cancelProcessing", pageThrown(outcome),
                                   outcome = "transmitted", "none")
    /\ UNCHANGED <<sessionVars, codec, app>>

\* ws.onmessage: handleMessage(JSON.parse(event.data)) with a message the server
\* sends for a request.  result, error and cancelled end the processing state;
\* WebSocketTestClient.handleResult also arms the auto-disconnect timer.
pageMessage(type) ==
    /\ tc.impl \in Impls
    /\ tc.sock.rs = "OPEN"
    /\ tc.sock.pending > 0
    /\ type = "cancelled" => tc.sock.cancelReq
    /\ (type = "result" /\ tc.impl = "WebSocketTestClient") => tc.timers < MaxTimers
    /\ tc' = [tc EXCEPT
                !.sock = IF type \in Terminal
                         THEN [@ EXCEPT !.pending = @ - 1,
                                        !.cancelReq = IF tc.sock.pending = 1
                                                      THEN FALSE ELSE @]
                         ELSE @,
                !.isProcessing = IF type \in Terminal THEN FALSE ELSE @,
                !.timers = IF type = "result" /\ tc.impl = "WebSocketTestClient"
                           THEN @ + 1 ELSE @]
    /\ lastCall' = Quiet
    /\ UNCHANGED <<sessionVars, codec, app>>

\* the callback handleResult handed to setTimeout:
\* `if (this.isConnected) this.disconnect()`
pageAutoDisconnect ==
    /\ tc.impl \in Impls
    /\ tc.timers > 0
    /\ tc' = IF tc.isConnected
             THEN [pageDisconnectEffect EXCEPT !.timers = @ - 1]
             ELSE [tc EXCEPT !.timers = @ - 1]
    /\ lastCall' = Quiet
    /\ UNCHANGED <<sessionVars, codec, app>>

\* ---- IlluminusApp (main.js) -------------------------------------------------------
\* The main page has its own socket and its own reconnect logic.  app holds the
\* object's fields:
\*   socket            the WebSocket object this.socket references
\*   isProcessing      this.isProcessing (setLoadingState)
\*   reconnectAttempts this.reconnectAttempts
\*   timers            reconnect timers armed by attemptReconnect, not yet fired
\*   delay             the delay attemptReconnect computed last
\*   audio, video      handleFormSubmit invocations suspended in fileToBase64
appMaxReconnectAttempts == 3

\* the moment after DOMContentLoaded: init() has called initializeWebSocket()
Loaded ==
    [loaded |-> TRUE, socket |-> Socket("CONNECTING", 0, FALSE, 0),
     isProcessing |-> FALSE, reconnectAttempts |-> 0, timers |-> 0, delay |-> 0,
     audio |-> 0, video |-> 0]

\* attemptReconnect(): Math.min(1000 * Math.pow(2, attempts - 1), 10000)
appDelayFor(n) == IF 1000 * 2^(n - 1) < 10000 THEN 1000 * 2^(n - 1) ELSE 10000

\* socket.onclose: `if (!this.isProcessing && this.reconnectAttempts <
\* this.maxReconnectAttempts) this.attemptReconnect()`
appShouldReconnect ==
    ~app.isProcessing /\ app.reconnectAttempts < appMaxReconnectAttempts

\* socket.onopen: reconnectAttempts = 0; a pending reconnect timeout is cleared
appOpen ==
    /\ app.loaded
    /\ app.socket.rs = "CONNECTING"
    /\ app' = [app EXCEPT !.socket.rs = "OPEN", !.reconnectAttempts = 0,
                          !.timers = 0]
    /\ lastCall' = Quiet
    /\ UNCHANGED <<sessionVars, tc, codec>>

\* the server starts the closing handshake: readyState CLOSING, no handler runs
appClosing ==
    /\ app.loaded
    /\ app.socket.rs = "OPEN"
    /\ app' = [app EXCEPT !.socket.rs = "CLOSING"]
    /\ lastCall' = Quiet
    /\ UNCHANGED <<sessionVars, tc, codec>>

\* socket.onerror (which only reports) and socket.onclose: attemptReconnect()
\* counts the attempt and arms the timer
appClose ==
    /\ app.loaded
    /\ app.socket.rs \in LiveStates
    /\ IF appShouldReconnect
       THEN /\ app.timers < MaxTimers
            /\ app' = [app EXCEPT !.socket = Socket("CLOSED", 0, FALSE, 0),
                                  !.reconnectAttempts = @ + 1,
                                  !.timers = @ + 1,
                                  !.delay = appDelayFor(app.reconnectAttempts + 1)]
       ELSE app' = [app EXCEPT !.socket = Socket("CLOSED", 0, FALSE, 0)]
    /\ lastCall' = Quiet
    /\ UNCHANGED <<sessionVars, tc, codec>>

\* the callback attemptReconnect handed to setTimeout: initializeWebSocket().
\* A timer is armed only by the close of the one socket, so none is alive here.
appTimer ==
    /\ app.loaded
    /\ app.timers > 0
    /\ app.socket.rs \notin LiveStates
    /\ app' = [app EXCEPT !.timers = @ - 1,
                          !.socket = Socket("CONNECTING", 0, FALSE, 0)]
    /\ lastCall' = Quiet
    /\ UNCHANGED <<sessionVars, tc, codec>>

\* handleFormSubmit(e), the guards:
\*   `if (this.isProcessing) return`
\*   `if (!this.socket || this.socket.readyState !== WebSocket.OPEN) return`
\*   `if (!videoFile || !audioFile) return`
appSubmitRefused(hasFiles) ==
    app.isProcessing \/ app.socket.rs # "OPEN" \/ ~hasFiles

\* handleFormSubmit(e): setLoadingState(true), then the first fileToBase64
appSubmit(hasFiles) ==
    /\ app.loaded
    /\ IF appSubmitRefused(hasFiles)
       THEN /\ app' = app
            /\ lastCall' = Call("handleFormSubmit", NoError, FALSE, "refused")
       ELSE /\ app.audio + app.video < MaxCalls
            /\ app' = [app EXCEPT !.isProcessing = TRUE, !.audio = @ + 1]
            /\ lastCall' = Call("handleFormSubmit", NoError, FALSE, "none")
    /\ UNCHANGED <<sessionVars, tc, codec>>

\* the first fileToBase64 resolved
appAudioLoaded ==
    /\ app.loaded
    /\ app.audio > 0
    /\ app' = [app EXCEPT !.audio = @ - 1, !.video = @ + 1]
    /\ lastCall' = Quiet
    /\ UNCHANGED <<sessionVars, tc, codec>>

\* the second fileToBase64 resolved: this.socket.send(JSON.stringify(message));
\* a socket that is closing or closed discards the data without an exception
appVideoLoaded ==
    /\ app.loaded
    /\ app.video > 0
    /\ app.socket.rs = "OPEN" => app.socket.pending < MaxPending
    /\ app' = [app EXCEPT
                  !.video = @ - 1,
                  !.socket.pending = IF app.socket.rs = "OPEN" THEN @ + 1 ELSE @,
                  !.isProcessing = IF app.socket.rs = "CONNECTING" THEN FALSE ELSE @]
    /\ lastCall' = Call("process",
                        IF app.socket.rs = "CONNECTING" THEN InvalidState ELSE NoError,
                        app.socket.rs = "OPEN", "none")
    /\ UNCHANGED <<sessionVars, tc, codec>>

\* fileToBase64 rejects (reader.onerror): the catch of handleFormSubmit calls
\* setLoadingState(false)
appFileError(phase) ==
    /\ app.loaded
    /\ app[phase] > 0
    /\ app' = [app EXCEPT ![phase] = @ - 1, !.isProcessing = FALSE]
    /\ lastCall' = Call("handleFormSubmit", ReadFailed, FALSE, "none")
    /\ UNCHANGED <<sessionVars, tc, codec>>

\* socket.onmessage: handleWebSocketMessage; result, error and cancelled end in
\* setLoadingState(false)
appMessage(type) ==
    /\ app.loaded
    /\ app.socket.rs = "OPEN"
    /\ app.socket.pending > 0
    /\ type = "cancelled" => app.socket.cancelReq
    /\ app' = [app EXCEPT
                  !.socket = afterMessage(@, Whole([type |-> type])),
                  !.isProcessing = IF type \in Terminal THEN FALSE ELSE @]
    /\ lastCall' = Quiet
    /\ UNCHANGED <<sessionVars, tc, codec>>

\* handleReset(): cancel is sent when a request is processing and the socket is
\* open; setLoadingState(false)
appReset ==
    /\ app.loaded
    /\ app' = [app EXCEPT
                  !.socket.cancelReq =
                      IF app.isProcessing /\ app.socket.rs = "OPEN"
                         /\ app.socket.pending > 0
                      THEN TRUE ELSE @,
                  !.isProcessing = FALSE]
    /\ lastCall' = Call("handleReset", NoError,
                        app.isProcessing /\ app.socket.rs = "OPEN", "none")
    /\ UNCHANGED <<sessionVars, tc, codec>>

\* ---- the system ---------------------------------------------------------------

\* what the browser, the network and the server can do to the sockets
Environment ==
    \/ reconnectTimer
    \/ \E s \in Live : onopen(s)
    \/ \E s \in Live : closing(s)
    \/ \E s \in Live, wasClean \in BOOLEAN : onclose(s, wasClean)

\* A processing session: the ProcessingPipeline is the only user of the
\* WebSocketManager it was constructed with.
Next ==
    \/ Environment
    \/ \E s \in Live, type \in MessageTypes : serverMessage(s, type)
    \/ \E files \in FileChoices : startProcessing(files)
    \/ audioLoaded
    \/ videoLoaded
    \/ \E phase \in {"audio", "video"} : fileError(phase)
    \/ cancelProcessing
    \/ reset

Spec == Init /\ [][Next]_vars

\* The WebSocketManager alone, driven through its public methods.
NextManager ==
    \/ Environment
    \/ callerConnect
    \/ disconnect
    \/ send

SpecManager == Init /\ [][NextManager]_vars

\* The inbound path on a connection that stays open: frames of every kind
\* arrive, whole or cut short, other components register handlers, and the
\* pipeline runs its requests.  The state after connect() and the open event:
Connected ==
    /\ ws = Socket("OPEN", 0, FALSE, 0)
    /\ isConnected = TRUE
    /\ reconnectAttempts = 0
    /\ stale = EmptyBag
    /\ timers = 0
    /\ isProcessing = FALSE
    /\ calls = [audio |-> 0, video |-> 0]
    /\ stops = 0
    /\ schedSinceOpen = 0
    /\ lastDelay = 0
    /\ disconnected = FALSE
    /\ lastCall = Quiet
    /\ lastConnectionChange = <<TRUE>>
    /\ messageHandlers = setupWebSocketHandlers
    /\ downloadUrl = FALSE
    /\ objectUrls = [result |-> 0, original |-> 0]
    /\ tc = NoPage
    /\ codec = NoCodec
    /\ app = NoApp

NextInbound ==
    \/ \E s \in Live, frame \in Frames : inbound(s, frame)
    \/ \E type \in ListenedTypes, handler \in Listeners : onMessage(type, handler)
    \/ \E files \in FileChoices : startProcessing(files)
    \/ audioLoaded
    \/ videoLoaded
    \/ cancelProcessing
    \/ reset

SpecInbound == Connected /\ [][NextInbound]_vars

\* The conversions of FileManager on every file of the bounded set, in either
\* browser engine.
InitCodec ==
    /\ Constructed
    /\ tc = NoPage
    /\ codec \in Files
    /\ app = NoApp

NextCodec ==
    \/ fileToBase64
    \/ decodeWire

SpecCodec == InitCodec /\ [][NextCodec]_vars

\* A WebSocket test page, of either class.
InitPage ==
    /\ Constructed
    /\ tc \in {Page(impl) : impl \in Impls}
    /\ codec = NoCodec
    /\ app = NoApp

NextPage ==
    \/ pageConnect
    \/ pageOpen
    \/ pageClose
    \/ pageDisconnect
    \/ \E hasFiles \in BOOLEAN : pageStart(hasFiles)
    \/ pageAudioLoaded
    \/ pageVideoLoaded
    \/ pageCancel
    \/ \E type \in MessageTypes : pageMessage(type)
    \/ pageAutoDisconnect

SpecPage == InitPage /\ [][NextPage]_vars


\* The main page, from the moment it has loaded.
InitApp ==
    /\ Constructed
    /\ tc = NoPage
    /\ codec = NoCodec
    /\ app = Loaded

\* the network settles a connection attempt: the socket opens or fails
appSettle ==
    \/ appOpen
    \/ (app.loaded /\ app.socket.rs = "CONNECTING" /\ appClose)

NextApp ==
    \/ appOpen
    \/ appClosing
    \/ appClose
    \/ appTimer
    \/ \E hasFiles \in BOOLEAN : appSubmit(hasFiles)
    \/ appAudioLoaded
    \/ appVideoLoaded
    \/ \E phase \in {"audio", "video"} : appFileError(phase)
    \/ \E type \in MessageTypes : appMessage(type)
    \/ appReset

SpecApp == InitApp /\ [][NextApp]_vars

\* An armed timer fires, and a connection attempt does not stay undecided: the
\* browser opens the socket or gives up on it.
SpecAppFair == SpecApp /\ WF_vars(appTimer) /\ WF_vars(appSettle)


\* ---- claims ---------------------------------------------------------------------

\* a terminal message (result, error or cancelled) is received in this step
TerminalReceived == \E s \in Live, type \in Terminal : serverMessage(s, type)

\* C1: at most one process request is outstanding on a connection at any time: no
\* socket carries two process messages that the server has not yet answered with
\* a terminal message.
C1_SingleFlight == \A s \in Live : s.rec.pending <= 1

\* C2: a startProcessing call made while isProcessing is true throws the
\* single-flight conflict error, transmits nothing, queues nothing and leaves
\* isProcessing and the connection as they were.
C2_ConflictFailsFast ==
    [][ (isProcessing /\ \E f \in FileChoices : startProcessing(f))
        => /\ lastCall'.thrown = AlreadyRunning
           /\ lastCall'.settle = "rejected"
           /\ ~lastCall'.handed
           /\ UNCHANGED <<mgrVars, pipeVars>> ]_vars

\* C2 witness: a second startProcessing was refused while the first request is
\* outstanding on the open connection.
C2_Witness ==
    /\ lastCall = Call("startProcessing", AlreadyRunning, FALSE, "rejected")
    /\ isProcessing
    /\ ws.rs = "OPEN" /\ ws.pending = 1

\* C3: a request is terminated (stopProcessing runs, the outcome is reported)
\* at most once, whatever was called before its terminal message arrived.
C3_TerminatedOnce == stops <= 1

C5_CancelLeavesOutstanding ==
    [][ (isProcessing /\ isReady /\ ws.pending > 0 /\ cancelProcessing)
        => (ws'.cancelReq /\ isProcessing' /\ stops' = stops) ]_vars

\* C6: when a socket closes while a process request transmitted on it has had no
\* terminal message, the request is ended: isProcessing is false afterwards.
C6_ConnectionLossEndsRequest ==
    [][ \A s \in Live, wasClean \in BOOLEAN :
            (s.rec.pending > 0 /\ onclose(s, wasClean)) => ~isProcessing' ]_vars

\* C7: the n-th reconnect scheduled since the last open event is scheduled with
\* the delay reconnectDelay * 2^(n-1), and no more than maxReconnectAttempts (5)
\* are scheduled without an open event in between.
C7_Backoff ==
    /\ schedSinceOpen <= maxReconnectAttempts
    /\ schedSinceOpen >= 1 => lastDelay = reconnectDelay * 2^(schedSinceOpen - 1)
    /\ schedSinceOpen = 0 => lastDelay = 0

\* C7 witness: the fifth consecutive attempt has been scheduled, with 16 s delay,
\* its timer has fired and the socket it opened has failed, which schedules no
\* sixth one.
C7_Witness ==
    /\ schedSinceOpen = 5
    /\ lastDelay = 16000
    /\ timers = 0
    /\ ws.rs = "CLOSED"
    /\ stale = EmptyBag

\* C8: after disconnect() no automatic reconnection occurs: a reconnect timer
\* that fires opens no new transport.
C8_DisconnectIsTerminal ==
    [][ (disconnected /\ reconnectTimer) => UNCHANGED <<ws, stale>> ]_vars

\* C9: there are never two transports connecting or open at the same time.
C9_OneLiveTransport == Transports <= 1

\* C10: send called while the connection is not ready throws the not-connected
\* error and hands nothing to the transport; a message send accepts is handed
\* to an open transport.
C10_SendNeverDrops ==
    [][ send => /\ ~isReady => (lastCall'.thrown = NotConnected /\ ~lastCall'.handed)
                /\ lastCall'.thrown = NoError => lastCall'.handed ]_vars

\* C11: an inbound frame that is not parseable JSON lets no exception leave the
\* inbound-message handler, makes exactly one internal-error event observable,
\* invokes no registered handler and leaves isConnected, the transport and the
\* reconnect counter unchanged.
C11_MalformedFrameContained ==
    [][ (lastCall'.op = "onmessage" /\ ~lastCall'.frame.whole)
        => /\ lastCall'.thrown = NoError
           /\ lastCall'.errorEvents = 1
           /\ lastCall'.invoked = <<>>
           /\ UNCHANGED <<isConnected, ws, stale, reconnectAttempts>> ]_vars

\* C12: cancelProcessing called while isProcessing is false sends no cancel
\* message and changes no client state, in the ProcessingPipeline and in both
\* test pages.
C12_IdleCancelIsNoOp ==
    [][ /\ (~isProcessing /\ cancelProcessing)
           => (~lastCall'.handed /\ UNCHANGED <<mgrVars, pipeVars, resultVars>>)
        /\ (tc.impl \in Impls /\ ~tc.isProcessing /\ pageCancel)
           => (~lastCall'.handed /\ UNCHANGED tc) ]_vars

\* C13: once reconnectAttempts has reached the cap and the last reconnect timer
\* has fired, no event schedules a reconnect, changes the counter or connects
\* the manager, except the open event of a transport, which restores the full
\* budget; a new transport appears only by an explicit connect().
C13_CapIsFinal ==
    [][ (reconnectAttempts = maxReconnectAttempts /\ timers = 0)
        => /\ Transports' > Transports => lastCall'.op = "connect"
           /\ (\E s \in Live : onopen(s))
              => (reconnectAttempts' = 0 /\ isConnected')
           /\ ~(\E s \in Live : onopen(s))
              => /\ timers' = 0
                 /\ reconnectAttempts' = maxReconnectAttempts
                 /\ ~isConnected' ]_vars

\* C13 witness: with the budget used up and no timer left, an explicit connect()
\* has opened a new transport.
C13_Witness ==
    /\ reconnectAttempts = maxReconnectAttempts
    /\ timers = 0
    /\ lastCall.op = "connect"
    /\ ws.rs = "CONNECTING"
    /\ ~isConnected

\* C14: onMessage(type, handler) makes handler the one handler of the type and
\* leaves the other types alone; an inbound message is handed, whole, to the
\* handler registered for its type and to no other, and a message whose type has
\* no handler (or only another component's) raises no error and leaves the
\* pipeline untouched.
C14_Dispatch ==
    [][ /\ lastCall'.op = "onMessage"
           => /\ messageHandlers'[lastCall'.type] = lastCall'.handler
              /\ \A t \in RouteTypes \ {lastCall'.type} :
                    messageHandlers'[t] = messageHandlers[t]
        /\ (lastCall'.op = "onmessage" /\ lastCall'.frame.whole)
           => /\ lastCall'.thrown = NoError
              /\ Len(lastCall'.invoked) <= 1
              /\ messageHandlers[lastCall'.frame.value.type] = NoHandler
                 => lastCall'.invoked = <<>>
              /\ messageHandlers[lastCall'.frame.value.type] # NoHandler
                 => lastCall'.invoked =
                       <<[handler |-> messageHandlers[lastCall'.frame.value.type],
                          message |-> lastCall'.frame.value]>>
              /\ messageHandlers[lastCall'.frame.value.type] \in Listeners \cup {NoHandler}
                 => UNCHANGED <<isProcessing, stops, resultVars>> ]_vars

\* C14 witness: a result message went to the listener registered after the
\* pipeline's own handler; the pipeline's handler did not run, so the request
\* it was sent for is still marked as processing.
C14_Witness ==
    /\ lastCall.op = "onmessage"
    /\ lastCall.frame.whole
    /\ lastCall.frame.value.type = "result"
    /\ lastCall.invoked = <<[handler |-> "listenerB", message |-> lastCall.frame.value]>>
    /\ isProcessing

\* C15: the value last passed to onConnectionChange equals isConnected.
C15_ChangeNotified ==
    lastConnectionChange # <<>> => lastConnectionChange[1] = isConnected

\* C16: a result message with a video, handled by the pipeline, is shown with
\* the processing_time, inference_fps, frames_processed and model_used of the
\* message and with the decoded video.
C16_ResultMetricsCarried ==
    [][ ( /\ lastCall'.op = "onmessage"
          /\ lastCall'.frame.whole
          /\ lastCall'.frame.value.type = "result"
          /\ lastCall'.frame.value.video_base64 # <<>>
          /\ messageHandlers["result"] = "handleResultMessage" )
        => /\ lastCall'.shown.kind = "showResult"
           /\ lastCall'.shown.video.ok
           /\ lastCall'.shown.total_processing_time
                 = lastCall'.frame.value.processing_time
           /\ lastCall'.shown.inference_fps = lastCall'.frame.value.inference_fps
           /\ lastCall'.shown.frames_processed
                 = lastCall'.frame.value.frames_processed
           /\ lastCall'.shown.model_type = lastCall'.frame.value.model_used ]_vars

\* C17: every file, encoded to the text of the message field and decoded with
\* base64ToBlob, comes back as the same bytes.
C17_RoundTrip ==
    codec.stage \in {"blob", "failed"}
    => (codec.stage = "blob" /\ codec.blob.bytes = codec.bytes)

\* C18: startProcessing called with the video or the audio file missing (and
\* no request in progress) throws, transmits nothing, makes no connection
\* attempt and leaves isProcessing false.
C18_MissingFilesFailFast ==
    [][ \A files \in FileChoices :
          ((~files.video \/ ~files.audio) /\ ~isProcessing /\ startProcessing(files))
          => /\ lastCall'.thrown = MissingFiles
             /\ lastCall'.settle = "rejected"
             /\ ~lastCall'.handed
             /\ ~isProcessing'
             /\ UNCHANGED <<mgrVars, pipeVars>> ]_vars

\* C18 witness: the call was refused for a missing file while the connection
\* was open and ready to carry a request.
C18_Witness ==
    /\ lastCall = Call("startProcessing", MissingFiles, FALSE, "rejected")
    /\ ~isProcessing
    /\ isReady

\* C19: an error message handled by the pipeline is reported with the
\* error_type and the message of the server.
C19_ErrorCarried ==
    [][ ( /\ lastCall'.op = "onmessage"
          /\ lastCall'.frame.whole
          /\ lastCall'.frame.value.type = "error"
          /\ messageHandlers["error"] = "handleErrorMessage" )
        => /\ lastCall'.shown.kind = "errorToast"
           /\ lastCall'.shown.message = lastCall'.frame.value.message
           /\ "error_type" \in DOMAIN lastCall'.shown
           /\ lastCall'.shown.error_type = lastCall'.frame.value.error_type ]_vars

\* C20: at most one object URL of a result video is unreleased, and none after
\* reset().
C20_ResultUrlsReleased ==
    /\ objectUrls.result <= 1
    /\ lastCall.op = "reset" => objectUrls.result = 0

\* C21: a close event with wasClean true, of the current socket or of one that
\* disconnect() or a later connect() dropped, schedules no reconnect and leaves
\* the attempt counter alone, whatever its value.
C21_CleanCloseNeverReconnects ==
    [][ \A s \in Live :
          onclose(s, TRUE)
          => UNCHANGED <<reconnectAttempts, timers, schedSinceOpen, lastDelay>> ]_vars

\* C21 witness: disconnect() was called and the socket it closed has reported
\* its close since (no socket is left and the last step was an event), while
\* attempts remained; an unclean close would have armed a timer, whose firing
\* makes a new socket.
C21_Witness ==
    /\ disconnected
    /\ lastCall = Quiet
    /\ ws = Null
    /\ stale = EmptyBag
    /\ timers = 0
    /\ reconnectAttempts < maxReconnectAttempts

\* C22: the server comes to hold one more process request only by the step
\* in which a suspended startProcessing invocation sends its message and ends,
\* and an invocation comes to be only by a startProcessing call that was
\* accepted, one per call: no close, reconnect, open event or inbound message
\* transmits a process message, so the messages transmitted never outnumber the
\* calls accepted.
C22_NoResubmission ==
    [][ /\ Held' > Held
           => /\ lastCall'.op = "process"
              /\ lastCall'.handed
              /\ Held' = Held + 1
              /\ Suspended' = Suspended - 1
        /\ Suspended' > Suspended
           => /\ lastCall' = Call("startProcessing", NoError, FALSE, "none")
              /\ Suspended' = Suspended + 1
              /\ ~isProcessing /\ isProcessing' ]_vars

\* C22 witness: the request of the accepted call was sent and has had no answer
\* (no stopProcessing since), the socket that carried it is gone and a new one is
\* open and ready: the server holds nothing on it, nothing was sent again.
C22_Witness ==
    /\ isProcessing
    /\ stops = 0
    /\ Suspended = 0
    /\ isReady
    /\ ws.pending = 0
    /\ stale = EmptyBag
    /\ lastCall = Quiet

\* C23: a progress message handled by the pipeline is shown with its own
\* percentage and its own status text, for every percentage of 0..100; the
\* display then always holds the values of the message received last.
C23_ProgressShownAsReceived ==
    [][ ( /\ lastCall'.op = "onmessage"
          /\ lastCall'.frame.whole
          /\ lastCall'.frame.value.type = "progress"
          /\ messageHandlers["progress"] = "handleProgressMessage" )
        => /\ lastCall'.shown.kind = "progress"
           /\ lastCall'.shown.percentage = lastCall'.frame.value.progress
           /\ lastCall'.shown.status = lastCall'.frame.value.message ]_vars

\* C24: connect() called while isConnected is true creates no socket and
\* resolves at once (the caller goes on); otherwise it creates one socket and
\* its promise stays pending until that socket reports open, which sets
\* isConnected and resumes the callers, or reports an error before opening,
\* which rejects them; a socket that has opened carries no pending promise, so
\* each promise settles once.
C24_ConnectSettles ==
    /\ [](\A s \in Live : s.rec.waiters > 0 => s.rec.rs \in {"CONNECTING", "ABORTING"})
    /\ [][ /\ ( /\ isConnected /\ ~isReady /\ ~isProcessing
                 /\ startProcessing([video |-> TRUE, audio |-> TRUE]) )
              => /\ UNCHANGED <<ws, stale>>
                 /\ Awaiting' = Awaiting
                 /\ calls'.audio = calls.audio + 1
           /\ Awaiting' > Awaiting
              => /\ ~isConnected
                 /\ Transports' = Transports + 1
                 /\ ws'.rs = "CONNECTING"
                 /\ ws'.waiters = Awaiting' - Awaiting
           /\ Awaiting' < Awaiting
              => \E s \in Live :
                    /\ s.rec.waiters = Awaiting - Awaiting'
                    /\ \/ /\ onopen(s)
                          /\ isConnected'
                          /\ calls'.audio = calls.audio + s.rec.waiters
                       \/ /\ onclose(s, FALSE)
                          /\ calls' = calls
                          /\ lastCall' = Call("startProcessing", ConnectFailed,
                                              FALSE, "rejected") ]_vars

\* C24 witness: the socket a startProcessing call was connecting failed before
\* it opened, and the call was rejected with the connection error.
C24_Witness ==
    /\ lastCall = Call("startProcessing", ConnectFailed, FALSE, "rejected")
    /\ ~isConnected
    /\ Awaiting = 0
    /\ calls = [audio |-> 0, video |-> 0]

\* C25: when startProcessing hands its process message to the socket (send got
\* past its guard and called this.ws.send), that socket is open.
C25_ProcessOnlyOverOpen ==
    [][ (videoLoaded /\ sendOutcome # "notConnected") => ws.rs = "OPEN" ]_vars

\* C26: isConnected is true only while the socket this.ws references has
\* opened and has not closed, and the open and close events of a socket that
\* this.ws no longer references change neither isConnected nor the attempt
\* counter and arm no reconnect timer.
C26_LateEventsIgnored ==
    /\ [](isConnected => ws.rs \in {"OPEN", "CLOSING"})
    /\ [][ \A s \in Live :
              (~s.cur /\ (onopen(s) \/ \E wasClean \in BOOLEAN : onclose(s, wasClean)))
              => UNCHANGED <<isConnected, reconnectAttempts, timers>> ]_vars

\* C27: a process message is transmitted only while its request is active:
\* isProcessing is true in the step that sends it (a cancelProcessing or reset
\* called while the invocation was connecting or encoding has cleared it).
C27_ProcessOnlyWhileActive ==
    [][ (videoLoaded /\ sendOutcome = "transmitted") => isProcessing ]_vars

\* C28: when startProcessing fails after it set isProcessing (connect()
\* rejected, fileToBase64 rejected, or send threw), isProcessing is false once
\* the failure is delivered and the step transmitted no process message.
C28_FailureClearsProcessing ==
    [][ ( /\ lastCall'.settle = "rejected"
          /\ lastCall'.thrown \in {ConnectFailed, ReadFailed, NotConnected, InvalidState} )
        => (~isProcessing' /\ ~lastCall'.handed /\ Held' <= Held) ]_vars

\* C28 witness: the connection dropped while the files were encoded; send threw
\* the not-connected error, the call was rejected and isProcessing is false.
C28_Witness ==
    /\ lastCall = Call("process", NotConnected, FALSE, "rejected")
    /\ ~isProcessing
    /\ ~isConnected
    /\ Suspended = 0

\* C29: whenever the socket of IlluminusApp is closed, the client eventually has
\* an open socket again or has used up its reconnect attempts.
C29_ReconnectsOrGivesUp ==
    [](app.socket.rs = "CLOSED"
       => <>(app.socket.rs = "OPEN"
             \/ app.reconnectAttempts = appMaxReconnectAttempts))

\* C30: in WebSocketTestClient the auto-disconnect timer of a result does not
\* close the connection while a newer request is in flight: when the timer fires
\* with a request started after that result still encoding or awaiting its
\* terminal message, the socket stays open.
C30_TimerSparesNewerRequest ==
    [][ ( /\ tc.impl = "WebSocketTestClient"
          /\ tc.isConnected /\ tc.sock.rs = "OPEN"
          /\ tc.isProcessing
          /\ tc.audio + tc.video + tc.sock.pending > 0
          /\ pageAutoDisconnect )
        => tc'.sock.rs = "OPEN" ]_vars

====
